---------------------------- MODULE Spec2Model ----------------------------
(***************************************************************************)
(* The entry routine of the PostgreSQL server executable                   *)
(* (src/backend/main/main.c): main(), startup_hacks(), init_locale(),      *)
(* help() and check_root().  One process, one thread; every statement of   *)
(* main() that can change the outcome is one step of the state machine.    *)
(* The preprocessor conditionals of the file (WIN32, EXEC_BACKEND,         *)
(* LC_MESSAGES) are a build configuration fixed in the initial state.      *)
(***************************************************************************)
EXTENDS Integers, Sequences, FiniteSets, TLC

(***************************************************************************)
(* Bounds of the model.                                                    *)
(***************************************************************************)
\* the largest argc explored (argv[0] included)
MaxArgc == 3
\* user ids explored are 0 .. MaxUid; 0 is the superuser
MaxUid == 1

NULL == "<NULL>"

(***************************************************************************)
(* Build configurations.  WIN32 builds always define EXEC_BACKEND; a      *)
(* POSIX build may define it as well.  LC_MESSAGES is missing only from    *)
(* the locale.h of some Windows toolchains.                                *)
(***************************************************************************)
Builds ==
    { [WIN32 |-> FALSE, EXEC_BACKEND |-> FALSE, LC_MESSAGES |-> TRUE],
      [WIN32 |-> FALSE, EXEC_BACKEND |-> TRUE,  LC_MESSAGES |-> TRUE],
      [WIN32 |-> TRUE,  EXEC_BACKEND |-> TRUE,  LC_MESSAGES |-> TRUE],
      [WIN32 |-> TRUE,  EXEC_BACKEND |-> TRUE,  LC_MESSAGES |-> FALSE] }

(***************************************************************************)
(* Argument vectors.  argv[0] is the program path; FirstArgs are the       *)
(* values tried for argv[1], RestArgs those tried for argv[2] and later.   *)
(***************************************************************************)
ProgPath == "postgres"

FirstArgs ==
    { "--help", "-?", "--version", "-V", "--fork", "--forkbackend", "--for",
      "--boot", "--describe-config", "--single", "-C", "-D", "--helpx" }

RestArgs == { "mydb", "--describe-config" }

RECURSIVE RestVectors(_)
RestVectors(n) ==
    IF n = 0 THEN { <<>> }
    ELSE LET shorter == RestVectors(n - 1)
         IN  shorter \cup { Append(v, a) : v \in { w \in shorter : Len(w) = n - 1 },
                                           a \in RestArgs }

ArgVectors ==
    { <<ProgPath>> } \cup
    { <<ProgPath, f>> \o r : f \in FirstArgs, r \in RestVectors(MaxArgc - 2) }

(***************************************************************************)
(* C strings.  strcmp and strncmp are used by main() only through          *)
(* "== 0"; a non-zero result is represented by 1.                          *)
(***************************************************************************)
Take(s, n) == IF Len(s) <= n THEN s ELSE SubSeq(s, 1, n)

strcmp(a, b) == IF a = b THEN 0 ELSE 1

strncmp(a, b, n) == IF Take(a, n) = Take(b, n) THEN 0 ELSE 1

(***************************************************************************)
(* Locale categories and the environment.                                  *)
(***************************************************************************)
Categories ==
    { "LC_COLLATE", "LC_CTYPE", "LC_MESSAGES", "LC_MONETARY", "LC_NUMERIC", "LC_TIME" }

EnvVars == Categories \cup { "LC_ALL", "LANG" }

Environments ==
    { [v \in EnvVars |->
          CASE v = "LC_ALL"      -> all
            [] v = "LC_COLLATE"  -> coll
            [] OTHER             -> NULL] :
      all \in { NULL, "de_DE" }, coll \in { NULL, "ja_JP" } }

VARIABLES
    build,          \* the preprocessor configuration of this executable
    argc, argv,     \* main's parameters; argv[i] of the C code is argv[i + 1] here
    uid, euid,      \* getuid(), geteuid()
    is_admin,       \* pgwin32_is_admin()
    env,            \* the process environment (locale variables only)
    pc,             \* the statement of main() about to run
    do_check_root,  \* main's local variable
    setting,        \* per category, the permanent setting made by pg_perm_setlocale
    log,            \* history: the startup steps and driver calls made, in order
    calls,          \* history: the role-driver calls made, with their arguments
    returned,       \* history: the role drivers that returned to main()
    out,            \* what was written to stdout
    exit_code,      \* the status passed to exit(), -1 while none
    exit_reason     \* which statement ended the process

vars == << build, argc, argv, uid, euid, is_admin, env, pc, do_check_root,
           setting, log, calls, returned, out, exit_code, exit_reason >>

Arg(i) == argv[i + 1]


config == << build, argc, argv, uid, euid, is_admin >>

(***************************************************************************)
(* The statements of main(), in program order, as compiled for a build.    *)
(* The locale labels are the init_locale call sites, named by category.    *)
(***************************************************************************)
AllSteps_root_check_before_locale ==
    << "startup_hacks", "save_ps_display_args", "MemoryContextInit",
       "set_pglocale_pgservice", "check_root",
       "LC_COLLATE", "LC_CTYPE", "LC_MESSAGES",
       "LC_MONETARY", "LC_NUMERIC", "LC_TIME",
       "unsetenv", "check_strxfrm_bug", "options",
       "SubPostmasterMain", "pgwin32_signal_initialize", "dispatch", "abort" >>

AllSteps ==
    << "startup_hacks", "save_ps_display_args", "MemoryContextInit",
       "set_pglocale_pgservice",
       "LC_COLLATE", "LC_CTYPE", "LC_MESSAGES",
       "LC_MONETARY", "LC_NUMERIC", "LC_TIME",
       "unsetenv", "check_strxfrm_bug", "options", "check_root",
       "SubPostmasterMain", "pgwin32_signal_initialize", "dispatch", "abort" >>

Compiled(b, p) ==
    CASE p = "LC_MESSAGES"               -> b.LC_MESSAGES
      [] p = "SubPostmasterMain"         -> b.EXEC_BACKEND
      [] p = "pgwin32_signal_initialize" -> b.WIN32
      [] OTHER                           -> TRUE

MainSteps(b) == SelectSeq(AllSteps, LAMBDA p : Compiled(b, p))

IndexOf(seq, x) == CHOOSE i \in 1 .. Len(seq) : seq[i] = x

\* the statement that follows statement p when p falls through
main_next(b, p) == MainSteps(b)[IndexOf(MainSteps(b), p) + 1]

(***************************************************************************)
(* exit(code), by the statement named in why.                              *)
(***************************************************************************)
Exit(code, why) ==
    /\ pc' = "exited"
    /\ exit_code' = code
    /\ exit_reason' = why

Continue ==
    /\ pc' = main_next(build, pc)
    /\ UNCHANGED << exit_code, exit_reason >>

(***************************************************************************)
(* Initial states: a build, an argument vector, an identity and an         *)
(* environment.  A Windows process has one account and the administrator   *)
(* test (its account is given the id 1 here); a POSIX process has real and  *)
(* effective user ids.                                                     *)
(***************************************************************************)
Uids == 0 .. MaxUid

Init ==
    /\ build \in Builds
    /\ argv \in ArgVectors
    /\ argc = Len(argv)
    /\ uid \in Uids
    /\ euid \in Uids
    /\ is_admin \in BOOLEAN
    /\ build.WIN32 => (uid = 1 /\ euid = 1)
    /\ ~build.WIN32 => is_admin = FALSE
    /\ env \in Environments
    /\ pc = "startup_hacks"
    /\ do_check_root = TRUE
    /\ setting = [c \in Categories |-> NULL]
    /\ log = << >>
    /\ calls = << >>
    /\ returned = << >>
    /\ out = "none"
    /\ exit_code = -1
    /\ exit_reason = "none"

(***************************************************************************)
(* startup_hacks(progname): on WIN32, WSAStartup may fail and the process  *)
(* exits with status 1; the rest has no effect on the outcome.             *)
(***************************************************************************)
StartupHacks ==
    /\ pc = "startup_hacks"
    /\ log' = Append(log, pc)
    /\ \E err \in { 0, 1 } :
          IF build.WIN32 /\ err # 0
          THEN Exit(1, "WSAStartup")
          ELSE Continue
    /\ UNCHANGED << config, env, do_check_root, setting, calls, returned, out >>

\* argv = save_ps_display_args(argc, argv): the same strings, possibly copied
SavePsDisplayArgs ==
    /\ pc = "save_ps_display_args"
    /\ log' = Append(log, pc)
    /\ Continue
    /\ UNCHANGED << config, env, do_check_root, setting, calls, returned, out >>

MemoryContextInit ==
    /\ pc = "MemoryContextInit"
    /\ log' = Append(log, pc)
    /\ Continue
    /\ UNCHANGED << config, env, do_check_root, setting, calls, returned, out >>

SetPglocalePgservice ==
    /\ pc = "set_pglocale_pgservice"
    /\ log' = Append(log, pc)
    /\ Continue
    /\ UNCHANGED << config, env, do_check_root, setting, calls, returned, out >>

(***************************************************************************)
(* pg_perm_setlocale(category, locale): setlocale() and, when it           *)
(* succeeds, putenv() of the category's variable.  ok says whether this    *)
(* call succeeds.  An empty locale names the environment's choice (LC_ALL, *)
(* then the category's variable, then LANG, then "C"); Windows takes the   *)
(* system default instead.                                                 *)
(***************************************************************************)
SystemLocale == "English_United States.1252"

EnvLocale(b, e, cat) ==
    IF b.WIN32 THEN SystemLocale
    ELSE IF e["LC_ALL"] # NULL THEN e["LC_ALL"]
    ELSE IF e[cat] # NULL THEN e[cat]
    ELSE IF e["LANG"] # NULL THEN e["LANG"]
    ELSE "C"

pg_perm_setlocale(b, st, cat, locale, ok) ==
    LET resolved == IF locale = "" THEN EnvLocale(b, st.env, cat) ELSE locale
    IN  IF ok
        THEN [ result  |-> resolved,
               setting |-> [st.setting EXCEPT ![cat] = resolved],
               env     |-> [st.env EXCEPT ![cat] = resolved] ]
        ELSE [ result |-> NULL, setting |-> st.setting, env |-> st.env ]

(***************************************************************************)
(* init_locale(categoryname, category, locale): adopt locale, else "C",    *)
(* else elog(FATAL).  ok1 and ok2 are the outcomes of the two              *)
(* pg_perm_setlocale calls.                                                *)
(***************************************************************************)
init_locale_no_fatal(b, st, cat, locale, ok1, ok2) ==
    LET first  == pg_perm_setlocale(b, st, cat, locale, ok1)
        second == pg_perm_setlocale(b, st, cat, "C", ok2)
    IN  IF first.result # NULL
        THEN [ fatal |-> FALSE, setting |-> first.setting, env |-> first.env ]
        ELSE [ fatal |-> FALSE, setting |-> second.setting, env |-> second.env ]

init_locale(b, st, cat, locale, ok1, ok2) ==
    LET first  == pg_perm_setlocale(b, st, cat, locale, ok1)
        second == pg_perm_setlocale(b, st, cat, "C", ok2)
    IN  IF first.result # NULL
        THEN [ fatal |-> FALSE, setting |-> first.setting, env |-> first.env ]
        ELSE IF second.result # NULL
        THEN [ fatal |-> FALSE, setting |-> second.setting, env |-> second.env ]
        ELSE [ fatal |-> TRUE, setting |-> st.setting, env |-> st.env ]

(***************************************************************************)
(* The locale argument main() passes at each init_locale call site.        *)
(***************************************************************************)
LocaleArg_from_environment(b, e, cat) ==
    IF cat \in { "LC_COLLATE", "LC_CTYPE" } /\ b.WIN32 /\ e[cat] # NULL
    THEN e[cat]
    ELSE ""

LocaleArg(b, e, cat) ==
    CASE cat \in { "LC_COLLATE", "LC_CTYPE" } ->
            IF b.WIN32 /\ e[cat] # NULL THEN e[cat] ELSE ""
      [] cat = "LC_MESSAGES" -> ""
      [] cat \in { "LC_MONETARY", "LC_NUMERIC", "LC_TIME" } -> "C"

\* one init_locale call of main(); pc names the category
InitLocale ==
    /\ pc \in Categories
    /\ log' = Append(log, pc)
    /\ \E ok1, ok2 \in BOOLEAN :
          LET r == init_locale(build, [setting |-> setting, env |-> env], pc,
                               LocaleArg(build, env, pc), ok1, ok2)
          IN  IF r.fatal
              THEN /\ Exit(1, "locale")
                   /\ UNCHANGED << setting, env >>
              ELSE /\ Continue
                   /\ setting' = r.setting
                   /\ env' = r.env
    /\ UNCHANGED << config, do_check_root, calls, returned, out >>

\* unsetenv("LC_ALL")
UnsetenvLcAll ==
    /\ pc = "unsetenv"
    /\ log' = Append(log, pc)
    /\ env' = [env EXCEPT !["LC_ALL"] = NULL]
    /\ Continue
    /\ UNCHANGED << config, do_check_root, setting, calls, returned, out >>

CheckStrxfrmBug ==
    /\ pc = "check_strxfrm_bug"
    /\ log' = Append(log, pc)
    /\ Continue
    /\ UNCHANGED << config, env, do_check_root, setting, calls, returned, out >>

(***************************************************************************)
(* The standard options, caught before the root check (argc > 1 block).    *)
(***************************************************************************)
IsHelpOption_long_only(c, v) ==
    c > 1 /\ strcmp(v[2], "--help") = 0

IsHelpOption(c, v) ==
    c > 1 /\ (strcmp(v[2], "--help") = 0 \/ strcmp(v[2], "-?") = 0)

IsVersionOption(c, v) ==
    c > 1 /\ (strcmp(v[2], "--version") = 0 \/ strcmp(v[2], "-V") = 0)

\* the value of do_check_root after the argc > 1 block
DoCheckRoot_no_C_exemption(c, v) ==
    ~ (c > 1 /\ strcmp(v[2], "--describe-config") = 0)

DoCheckRoot(c, v) ==
    IF c > 1
    THEN IF strcmp(v[2], "--describe-config") = 0 THEN FALSE
         ELSE IF c > 2 /\ strcmp(v[2], "-C") = 0 THEN FALSE
         ELSE TRUE
    ELSE TRUE

StandardOptions ==
    /\ pc = "options"
    /\ log' = Append(log, pc)
    /\ IF IsHelpOption(argc, argv)
       THEN /\ out' = "help"
            /\ Exit(0, "help")
            /\ UNCHANGED do_check_root
       ELSE IF IsVersionOption(argc, argv)
       THEN /\ out' = "version"
            /\ Exit(0, "version")
            /\ UNCHANGED do_check_root
       ELSE /\ do_check_root' = DoCheckRoot(argc, argv)
            /\ Continue
            /\ UNCHANGED out
    /\ UNCHANGED << config, env, setting, calls, returned >>

(***************************************************************************)
(* check_root(progname): the reason it refuses to continue, or "ok".       *)
(***************************************************************************)
check_root_euid_only(b, u, e, adm) ==
    IF ~ b.WIN32
    THEN IF e = 0 THEN "root" ELSE "ok"
    ELSE IF adm THEN "admin" ELSE "ok"

check_root_mismatch_only(b, u, e, adm) ==
    IF ~ b.WIN32
    THEN IF u # e THEN "uid_mismatch" ELSE "ok"
    ELSE "ok"

check_root(b, u, e, adm) ==
    IF ~ b.WIN32
    THEN IF e = 0 THEN "root"
         ELSE IF u # e THEN "uid_mismatch"
         ELSE "ok"
    ELSE IF adm THEN "admin" ELSE "ok"

\* if (do_check_root) check_root(progname);
CheckRoot ==
    /\ pc = "check_root"
    /\ IF do_check_root
       THEN /\ log' = Append(log, pc)
            /\ LET verdict == check_root(build, uid, euid, is_admin)
               IN  IF verdict # "ok" THEN Exit(1, verdict) ELSE Continue
       ELSE /\ UNCHANGED log
            /\ Continue
    /\ UNCHANGED << config, env, do_check_root, setting, calls, returned, out >>

(***************************************************************************)
(* Dispatch.  A call of a role driver is recorded with its arguments and   *)
(* its call site; the driver then runs (pc = "in_driver").                 *)
(***************************************************************************)
Call(fn, site, c, v, dbname, username) ==
    /\ calls' = Append(calls, [ fn |-> fn, site |-> site, argc |-> c, argv |-> v,
                                dbname |-> dbname, username |-> username ])
    /\ log' = Append(log, fn)
    /\ pc' = "in_driver"
    /\ UNCHANGED << exit_code, exit_reason >>

\* #ifdef EXEC_BACKEND: if (argc > 1 && strncmp(argv[1], "--fork", 6) == 0)
IsForkOption(c, v) == c > 1 /\ strncmp(v[2], "--fork", 6) = 0

ForkDispatch ==
    /\ pc = "SubPostmasterMain"
    /\ IF IsForkOption(argc, argv)
       THEN Call("SubPostmasterMain", pc, argc, argv, NULL, NULL)
       ELSE /\ Continue
            /\ UNCHANGED << calls, log >>
    /\ UNCHANGED << config, env, do_check_root, setting, returned, out >>

\* #ifdef WIN32: pgwin32_signal_initialize()
Win32SignalInitialize ==
    /\ pc = "pgwin32_signal_initialize"
    /\ log' = Append(log, pc)
    /\ Continue
    /\ UNCHANGED << config, env, do_check_root, setting, calls, returned, out >>

\* the driver chosen by the if / else if chain
DispatchTarget_boot_needs_argument(c, v) ==
    IF c > 1 /\ strcmp(v[2], "--describe-config") = 0 THEN "GucInfoMain"
    ELSE IF c > 1 /\ strcmp(v[2], "--single") = 0 THEN "PostgresMain"
    ELSE IF c > 2 /\ strcmp(v[2], "--boot") = 0 THEN "AuxiliaryProcessMain"
    ELSE "PostmasterMain"

DispatchTarget(c, v) ==
    IF c > 1 /\ strcmp(v[2], "--boot") = 0 THEN "AuxiliaryProcessMain"
    ELSE IF c > 1 /\ strcmp(v[2], "--describe-config") = 0 THEN "GucInfoMain"
    ELSE IF c > 1 /\ strcmp(v[2], "--single") = 0 THEN "PostgresMain"
    ELSE "PostmasterMain"

\* get_user_name_or_exit(progname): the name of the effective user
UserName(u) == IF u = 0 THEN "root" ELSE "user" \o ToString(u)

\* the dbname and username arguments of the PostgresMain call
PostgresMainArgs_target_from_argv(c, v, name) ==
    IF c > 2
    THEN [ dbname |-> v[3], username |-> NULL ]
    ELSE [ dbname |-> NULL, username |-> name ]

PostgresMainArgs(c, v, name) ==
    [ dbname |-> NULL, username |-> name ]

Dispatch ==
    /\ pc = "dispatch"
    /\ LET fn == DispatchTarget(argc, argv)
       IN  CASE fn = "AuxiliaryProcessMain" ->
                    Call(fn, pc, argc, argv, NULL, NULL)
             [] fn = "GucInfoMain" ->
                    Call(fn, pc, 0, << >>, NULL, NULL)
             [] fn = "PostgresMain" ->
                    \E found \in BOOLEAN :
                       IF found
                       THEN LET a == PostgresMainArgs(argc, argv, UserName(euid))
                            IN  Call(fn, pc, argc, argv, a.dbname, a.username)
                       ELSE /\ Exit(1, "get_user_name_or_exit")
                            /\ log' = Append(log, "get_user_name_or_exit")
                            /\ UNCHANGED calls
             [] fn = "PostmasterMain" ->
                    Call(fn, pc, argc, argv, NULL, NULL)
    /\ UNCHANGED << config, env, do_check_root, setting, returned, out >>

(***************************************************************************)
(* A role driver is outside this file.  It ends the process itself, or     *)
(* (against its contract) returns to the statement after its call.         *)
(***************************************************************************)
Running == calls[Len(calls)]

DriverExits ==
    /\ pc = "in_driver"
    /\ \E code \in { 0, 1 } : Exit(code, Running.fn)
    /\ UNCHANGED << config, env, do_check_root, setting, log, calls, returned, out >>

DriverReturns ==
    /\ pc = "in_driver"
    /\ returned' = Append(returned, Running.fn)
    /\ pc' = main_next(build, Running.site)
    /\ UNCHANGED << config, env, do_check_root, setting, log, calls, out,
                    exit_code, exit_reason >>

\* abort();  /* should not get here */
Abort ==
    /\ pc = "abort"
    /\ pc' = "aborted"
    /\ exit_reason' = "abort"
    /\ log' = Append(log, pc)
    /\ UNCHANGED << config, env, do_check_root, setting, calls, returned, out,
                    exit_code >>

Next ==
    \/ StartupHacks
    \/ SavePsDisplayArgs
    \/ MemoryContextInit
    \/ SetPglocalePgservice
    \/ InitLocale
    \/ UnsetenvLcAll
    \/ CheckStrxfrmBug
    \/ StandardOptions
    \/ CheckRoot
    \/ ForkDispatch
    \/ Win32SignalInitialize
    \/ Dispatch
    \/ DriverExits
    \/ DriverReturns
    \/ Abort

Spec == Init /\ [][Next]_vars

Terminated == pc \in { "exited", "aborted" }

TypeOK ==
    /\ build \in Builds
    /\ argc = Len(argv)
    /\ pc \in { AllSteps[i] : i \in 1 .. Len(AllSteps) } \cup { "in_driver", "exited", "aborted" }
    /\ do_check_root \in BOOLEAN
    /\ exit_code \in { -1, 0, 1 }
    /\ Terminated \/ ENABLED Next

(***************************************************************************)
(* Vocabulary of the properties.                                           *)
(***************************************************************************)
Range(seq) == { seq[i] : i \in 1 .. Len(seq) }

\* the effective identity is the superuser (administrator on Windows)
Superuser == IF build.WIN32 THEN is_admin ELSE euid = 0

FirstArgIs(tokens) == argc > 1 /\ Arg(1) \in tokens

InfoTokens == { "--help", "-?", "--version", "-V" }

PrivilegeReasons == { "root", "uid_mismatch", "admin" }

CheckRootRan == "check_root" \in Range(log)

DriverEntered == calls # << >>

\* the process has not stopped short of an end
Progresses == Terminated \/ ENABLED Next

\* the locale categories this build's main() negotiates
Recognized == { c \in Categories : Compiled(build, c) }

\* the last init_locale call has returned
LocaleNegotiated == "LC_TIME" \in Range(log) /\ exit_reason # "locale"

(***************************************************************************)
(* C1.  With a superuser (administrator) effective identity and a first    *)
(* argument of --boot, --single or none, the process exits with status 1   *)
(* and no role driver is ever entered.                                     *)
(***************************************************************************)
C1_SuperuserRefused ==
    (Superuser /\ (argc = 1 \/ FirstArgIs({ "--boot", "--single" })))
        => /\ ~ DriverEntered
           /\ pc \notin { "in_driver", "abort", "aborted" }
           /\ Terminated => (pc = "exited" /\ exit_code = 1)
           /\ Progresses

C1_Witness ==
    /\ Superuser
    /\ FirstArgIs({ "--single" })
    /\ pc = "exited"
    /\ exit_reason \in { "root", "admin" }
    /\ exit_code = 1

(***************************************************************************)
(* C2.  As claimed: check_root is not run, and the process does not exit   *)
(* with the privilege violation, whenever --describe-config appears        *)
(* anywhere in the argument vector or -C is the first argument.            *)
(***************************************************************************)
C2_BypassAnywhere ==
    ((\E i \in 1 .. argc - 1 : Arg(i) = "--describe-config") \/ FirstArgIs({ "-C" }))
        => /\ ~ CheckRootRan
           /\ exit_reason \notin PrivilegeReasons

(***************************************************************************)
(* C2, amended.  check_root is not run, and the process does not exit with *)
(* the privilege violation, whenever --describe-config is the first        *)
(* argument, or -C is the first argument and another argument follows it.  *)
(***************************************************************************)
C2_BypassFirstArgOnly ==
    (FirstArgIs({ "--describe-config" }) \/ (argc > 2 /\ FirstArgIs({ "-C" })))
        => /\ ~ CheckRootRan
           /\ exit_reason \notin PrivilegeReasons

C2_Witness ==
    /\ Superuser
    /\ argc > 2
    /\ FirstArgIs({ "-C" })
    /\ pc = "in_driver"
    /\ Running.fn = "PostmasterMain"
    /\ ~ CheckRootRan

(***************************************************************************)
(* C3.  As claimed: whenever the real and effective user ids differ, the   *)
(* process exits with status 1 and no role driver is entered.              *)
(***************************************************************************)
C3_MismatchAlwaysRefused ==
    (uid # euid)
        => /\ ~ DriverEntered
           /\ Terminated => (pc = "exited" /\ exit_code = 1)

(***************************************************************************)
(* C3, amended.  Whenever the real and effective user ids differ, the      *)
(* process exits with status 1 and no role driver is entered, unless the   *)
(* first argument is --help, -?, --version or -V, or the root check is     *)
(* bypassed (--describe-config first, or -C first with another argument).  *)
(***************************************************************************)
C3_MismatchRefusedWhenChecked ==
    (/\ uid # euid
     /\ ~ FirstArgIs(InfoTokens)
     /\ ~ FirstArgIs({ "--describe-config" })
     /\ ~ (argc > 2 /\ FirstArgIs({ "-C" })))
        => /\ ~ DriverEntered
           /\ pc \notin { "in_driver", "abort", "aborted" }
           /\ Terminated => (pc = "exited" /\ exit_code = 1)
           /\ Progresses

C3_Witness ==
    /\ uid # euid
    /\ euid # 0
    /\ pc = "exited"
    /\ exit_reason = "uid_mismatch"
    /\ exit_code = 1

(***************************************************************************)
(* C4.  As claimed: an invocation whose first argument is --help, -?,      *)
(* --version or -V always ends with exit status 0, and reaches neither     *)
(* check_root nor a role driver.                                           *)
(***************************************************************************)
C4_InfoAlwaysExitsZero ==
    FirstArgIs(InfoTokens)
        => /\ ~ CheckRootRan
           /\ ~ DriverEntered
           /\ Terminated => (pc = "exited" /\ exit_code = 0)

(***************************************************************************)
(* C4, amended.  An invocation whose first argument is --help, -?,         *)
(* --version or -V reaches neither check_root nor a role driver, and ends  *)
(* with exit status 0 unless WSAStartup (Windows) or the locale adoption   *)
(* failed first, which ends it with status 1; once the locale negotiation  *)
(* is over the only end is exit status 0 with the help or version text.    *)
(***************************************************************************)
C4_InfoExitsZeroAfterStartup ==
    FirstArgIs(InfoTokens)
        => /\ ~ CheckRootRan
           /\ ~ DriverEntered
           /\ pc \notin { "check_root", "SubPostmasterMain", "pgwin32_signal_initialize",
                          "dispatch", "in_driver", "abort", "aborted" }
           /\ Terminated =>
                 \/ /\ exit_code = 0
                    /\ FirstArgIs({ "--help", "-?" }) => (exit_reason = "help" /\ out = "help")
                    /\ FirstArgIs({ "--version", "-V" }) =>
                          (exit_reason = "version" /\ out = "version")
                 \/ /\ exit_code = 1
                    /\ exit_reason \in { "WSAStartup", "locale" }
                    /\ out = "none"
           /\ (Terminated /\ "options" \in Range(log)) => exit_code = 0
           /\ Progresses

C4_Witness ==
    /\ FirstArgIs({ "-?" })
    /\ argc > 2
    /\ Superuser
    /\ pc = "exited"
    /\ exit_code = 0
    /\ out = "help"

(***************************************************************************)
(* The mode a process took, read off what it did: the text it printed or   *)
(* the first role driver it called.                                        *)
(***************************************************************************)
ModeOfDriver(fn) ==
    CASE fn = "SubPostmasterMain"    -> "ForkedWorker"
      [] fn = "AuxiliaryProcessMain" -> "BootstrapLoad"
      [] fn = "GucInfoMain"          -> "DescribeConfig"
      [] fn = "PostgresMain"         -> "SingleSession"
      [] fn = "PostmasterMain"       -> "Supervisor"

\* the classification table of the claim; forkAware says whether a --fork
\* prefix selects ForkedWorker
TableMode(forkAware) ==
    IF FirstArgIs({ "--help", "-?" }) THEN "ShowHelp"
    ELSE IF FirstArgIs({ "--version", "-V" }) THEN "ShowVersion"
    ELSE IF forkAware /\ argc > 1 /\ Len(Arg(1)) >= 6 /\ SubSeq(Arg(1), 1, 6) = "--fork"
         THEN "ForkedWorker"
    ELSE IF FirstArgIs({ "--boot" }) THEN "BootstrapLoad"
    ELSE IF FirstArgIs({ "--describe-config" }) THEN "DescribeConfig"
    ELSE IF FirstArgIs({ "--single" }) THEN "SingleSession"
    ELSE "Supervisor"

ModeTaken(expected) ==
    /\ DriverEntered => ModeOfDriver(calls[1].fn) = expected
    /\ out = "help" => expected = "ShowHelp"
    /\ out = "version" => expected = "ShowVersion"
    /\ expected \in { "ShowHelp", "ShowVersion" } => ~ DriverEntered
    /\ (expected = "ShowHelp" /\ "options" \in Range(log)) => out = "help"
    /\ (expected = "ShowVersion" /\ "options" \in Range(log)) => out = "version"
    /\ exit_reason \in { "none", "help", "version", "WSAStartup", "locale",
                         "get_user_name_or_exit", "abort" }
                       \cup PrivilegeReasons \cup { calls[i].fn : i \in 1 .. Len(calls) }

(***************************************************************************)
(* C5.  As claimed: argv[1] alone selects the mode (--help, -? ShowHelp;   *)
(* --version, -V ShowVersion; a --fork prefix ForkedWorker; --boot         *)
(* BootstrapLoad; --describe-config DescribeConfig; --single               *)
(* SingleSession; anything else or nothing Supervisor), and no process     *)
(* ends for want of a classification.                                      *)
(***************************************************************************)
C5_ClassifierTable == ModeTaken(TableMode(TRUE))

(***************************************************************************)
(* C5, amended.  The same table, except that a --fork prefix selects       *)
(* ForkedWorker only in a build with EXEC_BACKEND; in any other build such *)
(* a first argument is unrecognized and selects Supervisor.                *)
(***************************************************************************)
C5_ClassifierTablePerBuild == ModeTaken(TableMode(build.EXEC_BACKEND))

C5_Witness ==
    /\ ~ build.EXEC_BACKEND
    /\ FirstArgIs({ "--forkbackend" })
    /\ pc = "in_driver"
    /\ Running.fn = "PostmasterMain"

(***************************************************************************)
(* C6.  As claimed: after the locale negotiation each of the six           *)
(* categories has a setting, and a category for which both the requested   *)
(* locale and "C" are rejected ends the process (status 1) before any role *)
(* driver is entered.                                                      *)
(***************************************************************************)
C6_AllSixResolved ==
    /\ LocaleNegotiated => \A c \in Categories : setting[c] # NULL
    /\ DriverEntered => \A c \in Categories : setting[c] # NULL
    /\ exit_reason = "locale" => (exit_code = 1 /\ ~ DriverEntered)

(***************************************************************************)
(* C6, amended.  The same for the categories the build negotiates: all six *)
(* where LC_MESSAGES is defined, the other five where it is not.  Every    *)
(* init_locale call that returns has left its category set.                *)
(***************************************************************************)
C6_RecognizedResolved ==
    /\ LocaleNegotiated => \A c \in Recognized : setting[c] # NULL
    /\ DriverEntered => \A c \in Recognized : setting[c] # NULL
    /\ \A c \in Categories :
          (c \in Range(log) /\ exit_reason # "locale") => setting[c] # NULL
    /\ exit_reason = "locale" => (exit_code = 1 /\ pc = "exited" /\ ~ DriverEntered)

C6_Witness ==
    /\ pc = "in_driver"
    /\ setting["LC_COLLATE"] = "de_DE"
    /\ setting["LC_CTYPE"] = "C"
    /\ \A c \in Recognized : setting[c] # NULL

(***************************************************************************)
(* C7.  As claimed: with --single mydb the name mydb is forwarded to       *)
(* PostgresMain and the user name is not; with --single alone the user     *)
(* name of the invoking identity is forwarded instead.                     *)
(***************************************************************************)
C7_DefaultNameOnlyWithoutTarget ==
    \A i \in 1 .. Len(calls) :
       calls[i].fn = "PostgresMain" =>
          /\ FirstArgIs({ "--single" })
          /\ argc > 2 => (Arg(2) \in Range(calls[i].argv) /\ calls[i].username = NULL)
          /\ argc = 2 => calls[i].username = UserName(euid)

(***************************************************************************)
(* C7, amended.  --single selects PostgresMain, which receives the whole   *)
(* argument vector (so mydb only as argv[2]), a NULL dbname, and the user  *)
(* name of the effective identity, whether or not a target name follows    *)
(* --single.                                                               *)
(***************************************************************************)
C7_UserNameAlwaysForwarded ==
    /\ \A i \in 1 .. Len(calls) :
          calls[i].fn = "PostgresMain" =>
             /\ FirstArgIs({ "--single" })
             /\ calls[i].argc = argc
             /\ calls[i].argv = argv
             /\ calls[i].dbname = NULL
             /\ calls[i].username = UserName(euid)
    /\ (FirstArgIs({ "--single" }) /\ DriverEntered) => calls[1].fn = "PostgresMain"

C7_Witness ==
    /\ pc = "in_driver"
    /\ Running.fn = "PostgresMain"
    /\ argc > 2
    /\ Running.argv[3] = "mydb"
    /\ Running.dbname = NULL
    /\ Running.username = "user1"

(***************************************************************************)
(* C8.  At most one role driver is ever entered, and once a driver has     *)
(* returned the process is at abort() or has aborted.                      *)
(***************************************************************************)
C8_DispatchNonReturning ==
    /\ Len(calls) <= 1
    /\ returned # << >> => pc \in { "abort", "aborted" }

(***************************************************************************)
(* C9.  The startup steps run in one fixed order, each at most once:       *)
(* startup_hacks, then MemoryContextInit, then the locale negotiation (the *)
(* init_locale calls and unsetenv of LC_ALL), then check_root, then the    *)
(* entry into a role driver; a later stage starts only when the stages     *)
(* before it are complete (check_root excepted, which may be skipped).     *)
(***************************************************************************)
Stage(step) ==
    CASE step = "startup_hacks"     -> 1
      [] step = "MemoryContextInit" -> 2
      [] step \in Categories \cup { "unsetenv" } -> 3
      [] step = "check_root"        -> 4
      [] step \in { "SubPostmasterMain", "AuxiliaryProcessMain", "GucInfoMain",
                    "PostgresMain", "PostmasterMain" } -> 5
      [] OTHER -> 0

Staged == { i \in 1 .. Len(log) : Stage(log[i]) # 0 }

C9_FixedStartupOrder ==
    /\ \A i, j \in 1 .. Len(log) : i < j => log[i] # log[j]
    /\ \A i, j \in Staged : i < j => Stage(log[i]) <= Stage(log[j])
    /\ \A i \in Staged :
          /\ Stage(log[i]) >= 2 => "startup_hacks" \in Range(SubSeq(log, 1, i - 1))
          /\ Stage(log[i]) >= 3 => "MemoryContextInit" \in Range(SubSeq(log, 1, i - 1))
          /\ Stage(log[i]) >= 4 =>
                (Recognized \cup { "unsetenv" }) \subseteq Range(SubSeq(log, 1, i - 1))
          /\ Stage(log[i]) = 5 =>
                (do_check_root => "check_root" \in Range(SubSeq(log, 1, i - 1)))
    /\ CheckRootRan => do_check_root

C9_Witness ==
    /\ pc = "in_driver"
    /\ CheckRootRan
    /\ build.WIN32
    /\ Len(calls) = 1

(***************************************************************************)
(* C10.  As claimed: once the locale negotiation is complete the monetary, *)
(* numeric and time categories are set to "C" whatever the environment     *)
(* holds, and LC_ALL is unset only after all six categories are processed. *)
(***************************************************************************)
Pinned == { "LC_MONETARY", "LC_NUMERIC", "LC_TIME" }

C10_PinnedAfterAllSix ==
    /\ LocaleNegotiated => \A c \in Pinned : setting[c] = "C"
    /\ "unsetenv" \in Range(log) =>
          (Categories \subseteq Range(log) /\ env["LC_ALL"] = NULL)

(***************************************************************************)
(* C10, amended.  The three categories are set to "C" as soon as their     *)
(* init_locale call returns, whatever the environment holds, and LC_ALL is *)
(* unset only after every category the build negotiates (six where         *)
(* LC_MESSAGES is defined, five where it is not) has been processed.       *)
(***************************************************************************)
C10_PinnedAfterAllRecognized ==
    /\ LocaleNegotiated => \A c \in Pinned : setting[c] = "C" /\ env[c] = "C"
    /\ \A c \in Pinned : (c \in Range(log) /\ exit_reason # "locale") => setting[c] = "C"
    /\ "unsetenv" \in Range(log) =>
          (Recognized \subseteq Range(log) /\ env["LC_ALL"] = NULL)
    /\ ("unsetenv" \notin Range(log) /\ setting["LC_COLLATE"] = "de_DE")
          => env["LC_ALL"] = "de_DE"

C10_Witness ==
    /\ "unsetenv" \in Range(log)
    /\ setting["LC_COLLATE"] = "de_DE"
    /\ setting["LC_MESSAGES"] = "de_DE"
    /\ \A c \in Pinned : setting[c] = "C"
    /\ env["LC_ALL"] = NULL

=============================================================================
